---- MODULE Spec2Model ----
(***************************************************************************)
(* Model of app.py: the YouTube trending fetch for one region              *)
(* (fetch_trending_for_region), the multi-region aggregation               *)
(* (fetch_multi_region), the two st.cache_data caches with their TTL, the  *)
(* refresh button of main, and the ranked views main derives.              *)
(*                                                                         *)
(* Time is counted in seconds, as the ttl argument of st.cache_data is.    *)
(***************************************************************************)
EXTENDS Integers, Sequences, FiniteSets, TLC

\* ------------------------------------------------------------------ bounds

\* Seconds the clock advances in one Tick.
Step == 3000
\* Number of Ticks a behaviour may take.
MaxTicks == 3
\* Longest `items` array of a response in the normalisation specification.
MaxItems == 2
\* Longest record table in the ranking specification.
MaxRows == 3
\* Largest view count in the ranking specification.
MaxViews == 1

\* ------------------------------------------------------------- program data

\* Region codes (two of ALL_REGION_CODES).
Regions == {"US", "CA"}

\* The selections main hands to fetch_multi_region: a preset of REGIONS or
\* the multiselect's choice, neither of which repeats a code.
RegionLists == {<<"US">>, <<"US", "CA">>}

\* The lists any caller may hand to fetch_multi_region(region_codes: list[str]).
CallerLists == RegionLists \cup {<<"CA", "CA">>}

\* ttl=60 * 60 * 2 of both st.cache_data decorators.
TTL == 60 * 60 * 2

\* sub.head(10) of the per-region view and df_global.head(30) of the global one.
REGION_TOP == 10
GLOBAL_TOP == 30

\* The thumbnail variants an item's snippet.thumbnails may hold.
Variants == {"medium", "high", "standard", "default"}

\* The url field of each variant's thumbnail object.
ThumbUrlOf == [v \in Variants |-> v \o ".jpg"]

\* thumb_obj.get("url") of the empty dict: None.
None == "None"

\* A raw item without the key "id".
NoId == "<no id>"

VideoIds == {"a", "b"}

\* A raw API item: id (or NoId), statistics.viewCount (has = FALSE: the key is
\* absent or does not parse as an integer), the set of thumbnail variants present.
RawItem(id, has, n, thumbs) ==
    [id |-> id, stats |-> [has |-> has, viewCount |-> n], thumbnails |-> thumbs]

\* ------------------------------------------------------------ normalisation

\* try: views = int(stats.get("viewCount", 0)) except: views = 0
ParseViews(stats) == IF stats.has THEN stats.viewCount ELSE 0

\* thumbs.get("medium") or thumbs.get("high") or thumbs.get("default") or {}
ThumbUrl(thumbs) ==
    IF "medium" \in thumbs THEN ThumbUrlOf["medium"]
    ELSE IF "high" \in thumbs THEN ThumbUrlOf["high"]
    ELSE IF "default" \in thumbs THEN ThumbUrlOf["default"]
    ELSE None

\* The dict appended to `videos` for one item; `born` is a history field: the
\* time of the network call the record comes from.
VideoRow(region_code, item, t) ==
    [region_code   |-> region_code,
     video_id      |-> item.id,
     view_count    |-> ParseViews(item.stats),
     thumbnail_url |-> ThumbUrl(item.thumbnails),
     born          |-> t]

\* The for-loop over items: vid = item["id"] raises KeyError on an item
\* without "id", and the exception leaves the function (ok = FALSE).
RECURSIVE BuildVideos(_, _, _)
BuildVideos(region_code, items, t) ==
    IF items = <<>> THEN [ok |-> TRUE, rows |-> <<>>]
    ELSE IF Head(items).id = NoId THEN [ok |-> FALSE, rows |-> <<>>]
    ELSE LET rest == BuildVideos(region_code, Tail(items), t)
         IN  IF rest.ok
             THEN [ok |-> TRUE,
                   rows |-> <<VideoRow(region_code, Head(items), t)>> \o rest.rows]
             ELSE [ok |-> FALSE, rows |-> <<>>]

\* A response of the API: the HTTP outcome and the `items` array.
Response(http_ok, items) == [http_ok |-> http_ok, items |-> items]

\* yt_get: resp.raise_for_status() raises on a transport failure or a
\* non-success status; otherwise the JSON body is returned.
yt_get(resp) == [ok |-> resp.http_ok, items |-> resp.items]

\* The body of fetch_trending_for_region (no cache): one network call, then
\* the loop over data.get("items", []).
fetch_trending_body(region_code, resp, t) ==
    LET data == yt_get(resp)
    IN  IF data.ok THEN BuildVideos(region_code, data.items, t)
        ELSE [ok |-> FALSE, rows |-> <<>>]

\* -------------------------------------------------------------------- cache

\* An empty slot of a st.cache_data cache.
NoEntry == [present |-> FALSE, at |-> 0, df |-> <<>>, fetched_at |-> 0]

Entry(t, df, fetched_at) ==
    [present |-> TRUE, at |-> t, df |-> df, fetched_at |-> fetched_at]

\* A mis-set ttl: one hour instead of two.
CacheLive_hour(e, t) == e.present /\ t < e.at + 60 * 60

\* An entry of a ttl cache is served while its age is below the ttl.
CacheLive(e, t) == e.present /\ t < e.at + TTL

\* An exception raised by the decorated function is stored as an empty table.
OnRaise_cached(cache, key, t) == [cache EXCEPT ![key] = Entry(t, <<>>, t)]

\* st.cache_data stores return values only: an exception raised by the
\* decorated function propagates and leaves the cache as it was.
OnRaise(cache, key, t) == cache

\* One event of an operation's log: a call of fetch_trending_for_region
\* (net: it went to the network; seen: the cache slot it found) or the
\* fetched_at stamp of fetch_multi_region.
CallEvent(r, net, ok, seen, df) ==
    [kind |-> "call", region |-> r, net |-> net, ok |-> ok, seen |-> seen, df |-> df]

StampEvent == [kind |-> "stamp", region |-> "", net |-> FALSE, ok |-> TRUE,
               seen |-> NoEntry, df |-> <<>>]

\* fetch_trending_for_region behind @st.cache_data(ttl=...), called at time t
\* when the network would answer resp.
fetch_trending_for_region(cache, r, resp, t) ==
    IF CacheLive(cache[r], t)
    THEN [cache |-> cache, ok |-> TRUE, df |-> cache[r].df,
          ev |-> CallEvent(r, FALSE, TRUE, cache[r], cache[r].df)]
    ELSE LET res == fetch_trending_body(r, resp, t)
         IN  IF res.ok
             THEN [cache |-> [cache EXCEPT ![r] = Entry(t, res.rows, t)],
                   ok |-> TRUE, df |-> res.rows,
                   ev |-> CallEvent(r, TRUE, TRUE, cache[r], res.rows)]
             ELSE [cache |-> OnRaise(cache, r, t), ok |-> FALSE, df |-> <<>>,
                   ev |-> CallEvent(r, TRUE, FALSE, cache[r], <<>>)]

\* The loop of fetch_multi_region: one call per element of region_codes, in
\* order; empty tables are not appended; an exception ends the loop.
RECURSIVE RegionLoop(_, _, _, _)
RegionLoop(codes, cache, resp, t) ==
    IF codes = <<>>
    THEN [cache |-> cache, ok |-> TRUE, all_dfs |-> <<>>, trace |-> <<>>]
    ELSE LET f == fetch_trending_for_region(cache, Head(codes), resp[Head(codes)], t)
         IN  IF ~f.ok
             THEN [cache |-> f.cache, ok |-> FALSE, all_dfs |-> <<>>,
                   trace |-> <<f.ev>>]
             ELSE LET rest == RegionLoop(Tail(codes), f.cache, resp, t)
                  IN  [cache |-> rest.cache, ok |-> rest.ok,
                       all_dfs |-> IF rest.ok
                                   THEN (IF f.df # <<>> THEN <<f.df>> ELSE <<>>)
                                        \o rest.all_dfs
                                   ELSE <<>>,
                       trace |-> <<f.ev>> \o rest.trace]

\* The tables joined last first.
RECURSIVE Concat_reversed(_)
Concat_reversed(dfs) ==
    IF dfs = <<>> THEN <<>> ELSE Concat_reversed(Tail(dfs)) \o Head(dfs)

\* pd.concat(all_dfs, ignore_index=True); pd.DataFrame() for no table.
RECURSIVE Concat(_)
Concat(dfs) == IF dfs = <<>> THEN <<>> ELSE Head(dfs) \o Concat(Tail(dfs))

\* fetch_multi_region behind @st.cache_data(ttl=...), keyed by the list.
fetch_multi_region(mcache, rcache, codes, resp, t) ==
    IF CacheLive(mcache[codes], t)
    THEN [mcache |-> mcache, rcache |-> rcache, ok |-> TRUE, hit |-> TRUE,
          df |-> mcache[codes].df, fetched_at |-> mcache[codes].fetched_at,
          trace |-> <<>>]
    ELSE LET loop == RegionLoop(codes, rcache, resp, t)
         IN  IF loop.ok
             THEN LET combined == Concat(loop.all_dfs)
                  IN  [mcache |-> [mcache EXCEPT ![codes] = Entry(t, combined, t)],
                       rcache |-> loop.cache, ok |-> TRUE, hit |-> FALSE,
                       df |-> combined, fetched_at |-> t,
                       trace |-> loop.trace \o <<StampEvent>>]
             ELSE [mcache |-> OnRaise(mcache, codes, t), rcache |-> loop.cache,
                   ok |-> FALSE, hit |-> FALSE, df |-> <<>>, fetched_at |-> 0,
                   trace |-> loop.trace]

\* ------------------------------------------------------------------- state

VARIABLES
    now,           \* the clock, in seconds
    region_cache,  \* the cache of fetch_trending_for_region: region -> slot
    multi_cache,   \* the cache of fetch_multi_region: region list -> slot
    last,          \* history: the operation that led to this state
    items,         \* normalisation: the `items` array of a response
    videos,        \* normalisation: what the fetch made of it
    df,            \* ranking: the combined table
    shown          \* ranking: the view rendered from it

vars == <<now, region_cache, multi_cache, last, items, videos, df, shown>>

cacheVars == <<now, region_cache, multi_cache, last>>
normVars == <<items, videos>>
rankVars == <<df, shown>>

\* The answers the API may give to one region's request in the cache model:
\* a failure, two items of equal view count, an item without "id".
Responses ==
    {Response(FALSE, <<>>),
     Response(TRUE, <<RawItem("a", TRUE, 5, {"medium"}),
                      RawItem("b", TRUE, 5, {"default"})>>),
     Response(TRUE, <<RawItem("a", TRUE, 5, {"medium"}),
                      RawItem(NoId, TRUE, 5, {"medium"})>>)}

NoOp == [op |-> "none", arg |-> <<>>, cleared |-> FALSE, hit |-> FALSE,
         ok |-> TRUE, out |-> <<>>, fetched_at |-> 0, trace |-> <<>>]

NotRun == [done |-> FALSE, ok |-> TRUE, rows |-> <<>>]

InitCache ==
    /\ now = 0
    /\ region_cache = [r \in Regions |-> NoEntry]
    /\ multi_cache = [l \in CallerLists |-> NoEntry]
    /\ last = NoOp

Init ==
    /\ InitCache
    /\ items = <<>> /\ videos = NotRun
    /\ df = <<>> /\ shown = [view |-> "none", code |-> "", rows |-> <<>>]

\* Time passes.
Tick ==
    /\ now + Step <= MaxTicks * Step
    /\ now' = now + Step
    /\ last' = [NoOp EXCEPT !.op = "tick"]
    /\ UNCHANGED <<region_cache, multi_cache>>

\* A direct call of fetch_trending_for_region(r).
FetchRegion(r, resp) ==
    LET f == fetch_trending_for_region(region_cache, r, resp, now)
    IN  /\ region_cache' = f.cache
        /\ last' = [op |-> "fetch_trending_for_region", arg |-> <<r>>,
                    cleared |-> FALSE, hit |-> ~f.ev.net, ok |-> f.ok,
                    out |-> f.df, fetched_at |-> 0, trace |-> <<f.ev>>]
        /\ UNCHANGED <<now, multi_cache>>

\* main from line 487 on, with the caches as given: fetch_multi_region.
RunFrom(mcache, rcache, codes, resp, cleared) ==
    LET m == fetch_multi_region(mcache, rcache, codes, resp, now)
    IN  /\ multi_cache' = m.mcache
        /\ region_cache' = m.rcache
        /\ last' = [op |-> "fetch_multi_region", arg |-> codes,
                    cleared |-> cleared, hit |-> m.hit, ok |-> m.ok,
                    out |-> m.df, fetched_at |-> m.fetched_at, trace |-> m.trace]
        /\ UNCHANGED now

\* A script run of main with the button not pressed.
Main(codes, resp) == RunFrom(multi_cache, region_cache, codes, resp, FALSE)

\* A script run with "Refresh data" pressed: st.cache_data.clear() empties
\* both caches, st.rerun() runs main again.
Refresh(codes, resp) ==
    RunFrom([l \in CallerLists |-> NoEntry], [r \in Regions |-> NoEntry],
            codes, resp, TRUE)

\* The program: script runs of main and the passing of time.
Next ==
    \/ Tick /\ UNCHANGED <<normVars, rankVars>>
    \/ \E codes \in RegionLists, resp \in [Regions -> Responses] :
         Main(codes, resp) /\ UNCHANGED <<normVars, rankVars>>
    \/ \E codes \in RegionLists, resp \in [Regions -> Responses] :
         Refresh(codes, resp) /\ UNCHANGED <<normVars, rankVars>>

Spec == Init /\ [][Next]_vars

\* A call of fetch_multi_region by any caller, with any list.
Aggregate(codes, resp) == RunFrom(multi_cache, region_cache, codes, resp, FALSE)

\* The two cached functions called by any caller: besides the program's own
\* steps, fetch_trending_for_region called directly and fetch_multi_region
\* called with a list that repeats a code.
NextCalls ==
    \/ Tick /\ UNCHANGED <<normVars, rankVars>>
    \/ \E codes \in RegionLists, resp \in [Regions -> Responses] :
         Main(codes, resp) /\ UNCHANGED <<normVars, rankVars>>
    \/ \E codes \in RegionLists, resp \in [Regions -> Responses] :
         Refresh(codes, resp) /\ UNCHANGED <<normVars, rankVars>>
    \/ \E r \in Regions, resp \in Responses :
         FetchRegion(r, resp) /\ UNCHANGED <<normVars, rankVars>>
    \/ \E codes \in CallerLists \ RegionLists, resp \in [Regions -> Responses] :
         Aggregate(codes, resp) /\ UNCHANGED <<normVars, rankVars>>

SpecCalls == Init /\ [][NextCalls]_vars

\* ------------------------------------------- the fetch body on its own

\* Sequences over S of length at most n.
SeqUpTo(S, n) == UNION {[1..k -> S] : k \in 0..n}

\* The raw items a response may carry.
RawItems ==
    {RawItem(id, has, 7, thumbs) :
        id \in VideoIds \cup {NoId}, has \in BOOLEAN, thumbs \in SUBSET Variants}

InitNormalize ==
    /\ InitCache
    /\ items \in SeqUpTo(RawItems, MaxItems)
    /\ videos = NotRun
    /\ df = <<>> /\ shown = [view |-> "none", code |-> "", rows |-> <<>>]

\* fetch_trending_for_region(r) on a successful response carrying `items`.
Normalize(r) ==
    /\ ~videos.done
    /\ LET res == fetch_trending_body(r, Response(TRUE, items), 0)
       IN  videos' = [done |-> TRUE, ok |-> res.ok, rows |-> res.rows]
    /\ UNCHANGED items

NextNormalize ==
    \E r \in Regions : Normalize(r) /\ UNCHANGED <<cacheVars, rankVars>>

SpecNormalize == InitNormalize /\ [][NextNormalize]_vars

\* ---------------------------------------------------------- ranked views

\* The rows of a combined table in the ranking specification.
Rows ==
    [region_code : Regions, video_id : VideoIds, view_count : 0..MaxViews,
     thumbnail_url : {None}, born : {0}]

Perms(n) == {p \in [1..n -> 1..n] : \A i, j \in 1..n : i # j => p[i] # p[j]}

\* df.sort_values("view_count", ascending=False): the default kind is
\* "quicksort", which pandas documents as not stable, so rows of equal
\* view_count come out in any order.
sort_values(t) ==
    {[i \in 1..Len(t) |-> t[p[i]]] :
        p \in {q \in Perms(Len(t)) :
                 \A i \in 1..(Len(t) - 1) :
                     t[q[i]].view_count >= t[q[i + 1]].view_count}}

\* .head(n)
head(t, n) == SubSeq(t, 1, IF n < Len(t) THEN n ELSE Len(t))

\* df[df["region_code"] == code]
RegionRows(t, code) == SelectSeq(t, LAMBDA row : row.region_code = code)

InitRank ==
    /\ InitCache
    /\ items = <<>> /\ videos = NotRun
    /\ df \in SeqUpTo(Rows, MaxRows)
    /\ shown = [view |-> "none", code |-> "", rows |-> <<>>]

\* The "Combined global ranking" tab.
RankGlobal ==
    /\ \E sorted \in sort_values(df) :
         shown' = [view |-> "global", code |-> "", rows |-> head(sorted, GLOBAL_TOP)]
    /\ UNCHANGED df

\* One region of the "By region" tab; a region without rows is skipped.
RankRegion(code) ==
    /\ RegionRows(df, code) # <<>>
    /\ \E sorted \in sort_values(RegionRows(df, code)) :
         shown' = [view |-> "region", code |-> code, rows |-> head(sorted, REGION_TOP)]
    /\ UNCHANGED df

NextRank ==
    \/ RankGlobal /\ UNCHANGED <<cacheVars, normVars>>
    \/ \E code \in Regions : RankRegion(code) /\ UNCHANGED <<cacheVars, normVars>>

SpecRank == InitRank /\ [][NextRank]_vars

\* ------------------------------------------------------------ properties

Range(f) == {f[i] : i \in DOMAIN f}

\* The positions of the log at which region r was called.
CallsOf(trace, r) ==
    {i \in DOMAIN trace : trace[i].kind = "call" /\ trace[i].region = r}

\* The number of network calls the log holds for region r.
NetCalls(trace, r) == Cardinality({i \in CallsOf(trace, r) : trace[i].net})

IsAggregation(l) == l.op = "fetch_multi_region"

\* C1: a call of fetch_trending_for_region(r) that finds an entry stored at
\* t0, at a time below t0 + TTL, makes no network call and returns the stored
\* table, and the entry stays as it is; and an entry is only ever replaced by
\* a network call for its region or removed by the refresh.
C1_HitWithinTTL ==
    [][/\ \A i \in DOMAIN last'.trace :
            LET e == last'.trace[i]
            IN  (e.kind = "call" /\ e.seen.present /\ now' < e.seen.at + TTL)
                => /\ ~e.net
                   /\ e.ok
                   /\ e.df = e.seen.df
                   /\ region_cache'[e.region] = e.seen
       /\ \A r \in Regions :
            (region_cache[r].present /\ ~last'.cleared
               /\ NetCalls(last'.trace, r) = 0)
            => region_cache'[r] = region_cache[r]
      ]_vars

\* C1 witness: a call served from an entry stored at an earlier time.
C1_Witness ==
    \E i \in DOMAIN last.trace :
        LET e == last.trace[i]
        IN  /\ e.kind = "call" /\ ~e.net
            /\ e.seen.present /\ e.seen.at < now /\ e.df # <<>>

\* C2 (as claimed): a request for r, directly or through the aggregation,
\* that succeeds when r's entry has expired or the refresh has just cleared
\* it, makes exactly one network call for r and stores a fresh entry.
C2_OneCallAfterExpiry ==
    [][\A r \in Regions :
         (/\ last'.op \in {"fetch_trending_for_region", "fetch_multi_region"}
          /\ last'.ok
          /\ r \in Range(last'.arg)
          /\ region_cache[r].present
          /\ (last'.cleared \/ now >= region_cache[r].at + TTL))
         => /\ NetCalls(last'.trace, r) = 1
            /\ region_cache'[r].present
            /\ region_cache'[r].at = now'
      ]_vars

\* The tables the successful calls of a log returned, in call order.
OkTables(trace) ==
    LET calls == SelectSeq(trace, LAMBDA e : e.kind = "call" /\ e.ok /\ e.df # <<>>)
    IN  [i \in DOMAIN calls |-> calls[i].df]

RECURSIVE Join(_)
Join(tables) == IF tables = <<>> THEN <<>> ELSE Head(tables) \o Join(Tail(tables))

\* C3 (as claimed): an aggregation in which one region's fetch fails and
\* another's succeeds returns the records of the succeeding regions.
C3_PartialSnapshot ==
    (/\ IsAggregation(last)
     /\ \E i, j \in DOMAIN last.trace :
          /\ last.trace[i].kind = "call" /\ ~last.trace[i].ok
          /\ last.trace[j].kind = "call" /\ last.trace[j].ok
          /\ last.trace[i].region # last.trace[j].region)
    => /\ last.ok
       /\ last.out = Join(OkTables(last.trace))

\* C4: a failed call of fetch_trending_for_region(r) went to the network and
\* leaves r's slot as it found it, with no live entry in it; a failed
\* aggregation leaves its own slot likewise; and the call for r that follows a
\* failure goes to the network again.
C4_ErrorsNotCached ==
    [][/\ \A i \in DOMAIN last'.trace :
            LET e == last'.trace[i]
                r == e.region
            IN  (e.kind = "call" /\ ~e.ok)
                => /\ e.net
                   /\ ~last'.ok
                   /\ region_cache'[r] = e.seen
                   /\ e.seen = (IF last'.cleared THEN NoEntry ELSE region_cache[r])
                   /\ ~(region_cache'[r].present
                          /\ now' < region_cache'[r].at + TTL)
                   /\ IsAggregation(last')
                      => /\ multi_cache'[last'.arg] =
                              (IF last'.cleared THEN NoEntry
                               ELSE multi_cache[last'.arg])
                         /\ ~(multi_cache'[last'.arg].present
                                /\ now' < multi_cache'[last'.arg].at + TTL)
       /\ \A r \in Regions :
            (/\ \E i \in CallsOf(last.trace, r) : ~last.trace[i].ok
             /\ CallsOf(last'.trace, r) # {})
            => \E i \in CallsOf(last'.trace, r) :
                  /\ last'.trace[i].net
                  /\ \A j \in CallsOf(last'.trace, r) : i <= j
      ]_vars

\* C4 witness: an aggregation in which one region was fetched and stored and
\* the next region's fetch failed.
C4_Witness ==
    /\ IsAggregation(last) /\ ~last.ok
    /\ Len(last.trace) = 2
    /\ last.trace[1].ok /\ last.trace[1].net
    /\ ~last.trace[2].ok

\* The records C5 expects: one per item that has an id, in response order.
RECURSIVE RowsOfValid(_, _, _)
RowsOfValid(region_code, its, t) ==
    IF its = <<>> THEN <<>>
    ELSE (IF Head(its).id = NoId THEN <<>>
          ELSE <<VideoRow(region_code, Head(its), t)>>)
         \o RowsOfValid(region_code, Tail(its), t)

\* C5 (as claimed): on a successful response the fetch does not fail, and its
\* table holds one record for every item that has an id, in response order.
C5_BadItemsSkipped ==
    videos.done =>
        /\ videos.ok
        /\ \E r \in Regions : videos.rows = RowsOfValid(r, items, 0)

\* The stable sort by view_count descending: each row goes after the rows
\* before it whose view_count is at least its own.
RECURSIVE StableDesc(_)
StableDesc(t) ==
    IF t = <<>> THEN <<>>
    ELSE LET n == Len(t)
             front == StableDesc(SubSeq(t, 1, n - 1))
             k == Cardinality({i \in DOMAIN front :
                                 front[i].view_count >= t[n].view_count})
         IN  SubSeq(front, 1, k) \o <<t[n]>> \o SubSeq(front, k + 1, Len(front))

\* C6 (as claimed): the view shown is the stable sort of its input by
\* view_count descending, cut to the view's limit.
C6_StableRanking ==
    /\ shown.view = "global"
       => shown.rows = head(StableDesc(df), GLOBAL_TOP)
    /\ shown.view = "region"
       => shown.rows = head(StableDesc(RegionRows(df, shown.code)), REGION_TOP)

\* C7 (as claimed): a code that occurs more than once in the list is fetched
\* from the network at most once and its records are in the snapshot once.
C7_DuplicatesCollapse ==
    \A r \in Regions :
        (/\ IsAggregation(last) /\ last.ok /\ ~last.hit
         /\ Cardinality({i \in DOMAIN last.arg : last.arg[i] = r}) > 1)
        => /\ NetCalls(last.trace, r) <= 1
           /\ RegionRows(last.out, r) = region_cache[r].df

\* The url C8 expects: the first variant present of medium, high, standard,
\* default; None when none is.
FirstOf(order, thumbs) ==
    LET present == SelectSeq(order, LAMBDA v : v \in thumbs)
    IN  IF present = <<>> THEN None ELSE ThumbUrlOf[Head(present)]

\* C8 (as claimed): every record's thumbnail_url is the url of the first
\* variant present in the order medium, high, standard, default, and None
\* only when the item has none of the four.
C8_ThumbnailOrder ==
    (videos.done /\ videos.ok) =>
        \A i \in DOMAIN videos.rows :
            videos.rows[i].thumbnail_url =
                FirstOf(<<"medium", "high", "standard", "default">>,
                        items[i].thumbnails)

\* The tables the region cache holds for the codes of a list, joined in
\* list order.
RECURSIVE JoinCached(_, _)
JoinCached(codes, cache) ==
    IF codes = <<>> THEN <<>>
    ELSE cache[Head(codes)].df \o JoinCached(Tail(codes), cache)

Distinct(codes) == Cardinality(Range(codes)) = Len(codes)

\* C9: an aggregation over distinct codes that succeeds and is computed (not
\* served from its own cache) returns the regions' tables joined in list
\* order, each as the region's call returned it; every record of a region's
\* table carries that region's code; fetched_at is stamped once, after the
\* last region call, and no record is younger than it.
C9_ConcatInOrder ==
    /\ \A r \in Regions : \A i \in DOMAIN region_cache[r].df :
          region_cache[r].df[i].region_code = r
    /\ (IsAggregation(last) /\ last.ok /\ Distinct(last.arg))
       => /\ \A i \in DOMAIN last.out : last.out[i].born <= last.fetched_at
          /\ \A i, j \in DOMAIN last.out :
                i < j =>
                  \E a, b \in DOMAIN last.arg :
                      /\ a <= b
                      /\ last.arg[a] = last.out[i].region_code
                      /\ last.arg[b] = last.out[j].region_code
          /\ ~last.hit
             => /\ last.out = JoinCached(last.arg, region_cache)
                /\ Len(last.trace) = Len(last.arg) + 1
                /\ \A i \in 1..Len(last.arg) :
                      /\ last.trace[i].kind = "call"
                      /\ last.trace[i].region = last.arg[i]
                      /\ last.trace[i].df = region_cache[last.arg[i]].df
                /\ last.trace[Len(last.trace)] = StampEvent
                /\ last.fetched_at = now
                /\ multi_cache[last.arg] = Entry(now, last.out, now)

\* C9 witness: a computed aggregation over two distinct codes, one served
\* from the region cache and one fetched, both with records.
C9_Witness ==
    /\ IsAggregation(last) /\ last.ok /\ ~last.hit
    /\ Distinct(last.arg) /\ Len(last.arg) = 2
    /\ \A i \in 1..2 : last.trace[i].df # <<>>
    /\ \E i, j \in 1..2 : last.trace[i].net /\ ~last.trace[j].net

\* C10 (as claimed): every record an aggregation returns at time t comes
\* from a network call made no earlier than t - TTL.
C10_NoOlderThanTTL ==
    (IsAggregation(last) /\ last.ok)
    => \A i \in DOMAIN last.out : last.out[i].born >= now - TTL

====
